---- MODULE Spec2Model ----
(***************************************************************************)
(* A model of watcher.py: one run of run_from_args reads the               *)
(* configuration, validates it, loads the pickled archive, walks every     *)
(* (watch, path) pair in check_and_alert and saves the archive.  Runs are  *)
(* serialized; the clock, the watched files and the SMTP transport are the *)
(* environment.                                                            *)
(***************************************************************************)
EXTENDS Integers, Sequences, FiniteSets, TLC

\* ------------------------------------------------------------- bounds
\* The clock runs from Epoch to MaxTime.
MaxTime == 5

\* ------------------------------------------------------------- inputs
WatchNames == {"w1", "w2"}
PathNames == {"p1", "p2"}
Keys == WatchNames \X PathNames

\* Condition expressions (the "func" option of an alert section), by shape:
\*   age   : path.age_seconds >= limit
\*   guard : path.age_seconds >= limit and archive.last_alert_age_seconds >= D
\*   raise : path.no_such_fact             (evaluation raises)
Exprs ==
    { [kind |-> "age",   limit |-> 1, D |-> 0],
      [kind |-> "guard", limit |-> 1, D |-> 2],
      [kind |-> "raise", limit |-> 0, D |-> 0] }

\* Expressions that do more than compute a truth value:
\*   clear : archive.archive.clear() or path.age_seconds >= limit
\*   touch : open(path.path, 'w').close() or True
ExprsEval ==
    Exprs \cup { [kind |-> "clear", limit |-> 1, D |-> 0],
                 [kind |-> "touch", limit |-> 0, D |-> 0] }

\* time.time() is far beyond every configured threshold: the clock starts at
\* the largest of them.
Epoch == CHOOSE t \in {e.limit + e.D : e \in Exprs} :
            \A e \in Exprs : e.limit + e.D <= t

\* The templates emails_from_config returns are keyed by DefinedEmails; a
\* section's "email" option may name any of EmailKeys.
DefinedEmails == {"e1"}
EmailKeys == {"e1", "e2"}

AlertLists == { <<"w1">>, <<"w1", "w2">>, <<"w1", "w1">> }
PathLists == { <<>>, <<"p1">>, <<"p1", "p2">> }

Sections == [func_expr : Exprs, paths : PathLists, email_key : EmailKeys]

DefaultSection ==
    [func_expr |-> [kind |-> "age", limit |-> 1, D |-> 0],
     paths |-> <<"p1">>, email_key |-> "e1"]

SeqRange(s) == { s[i] : i \in 1..Len(s) }

\* A configuration: the "alerts" list of [watcher] and one alert.<name>
\* section per listed name (unlisted names keep the default section).
Configs ==
    { cp \in [alerts : AlertLists, sections : [WatchNames -> Sections]] :
        \A w \in WatchNames \ SeqRange(cp.alerts) :
            cp.sections[w] = DefaultSection }

\* ------------------------------------------------------------- state
VARIABLES
    cp,            \* the parsed configuration of the runs
    now,           \* time.time()
    present,       \* the watched paths that exist on disk
    mtime,         \* st_mtime of each watched path
    archive_file,  \* the archive file: [exists, bytes]
    archive,       \* the in-memory archive of the current run, as a mapping
    archive_type,  \* the type of the object load_archive returned
    pc,            \* position of the run
    exc,           \* the exception that ended the run, or "none"
    wi, pi,        \* check_and_alert: index of the watch, index of its path
    stat,          \* WatcherPath.stat.st_mtime of the current pair
    \* history of the current run
    loaded,        \* whether load_archive has returned
    loaded0,       \* the mapping load_archive returned
    file0,         \* the archive file when the run started
    evald,         \* keys whose condition was evaluated
    raised,        \* keys whose evaluation raised
    attempted,     \* keys for which a send was attempted
    sent,          \* keys for which a send succeeded
    sendFailed,    \* keys for which the send raised
    statFailed,    \* keys for which os.stat raised
    writes,        \* calls of update_last_alert
    saves,         \* calls of save_archive
    \* history across runs
    everSent,      \* keys with a successful send in any run
    lastSent,      \* time of the last successful send of each key
    prevSent,      \* lastSent as of the start of the current run
    failedPrev,    \* keys whose send raised in the previous run
    trueAtStart,   \* keys whose condition held when the run started
    \* arguments and results of the functions checked on their own
    email_template, \* make_email: the template, a sequence of fields
    trigger,        \* make_email: the path the alert is for
    email_message,  \* make_email: the message returned
    section_key,    \* is_prefixed: the key
    key_prefixed    \* is_prefixed: the value returned

vars == << cp, now, present, mtime, archive_file, archive, pc, exc, wi, pi,
           stat, loaded, loaded0, file0, evald, raised, attempted,
           sent, sendFailed, statFailed, writes, saves, everSent, lastSent,
           prevSent, failedPrev, trueAtStart, archive_type,
           email_template, trigger, email_message, section_key,
           key_prefixed >>

envVars == << now, present, mtime >>
posVars == << wi, pi, stat >>
runHist == << loaded, loaded0, file0, evald, raised, attempted, sent,
              sendFailed, statFailed, writes, saves >>
crossHist == << everSent, lastSent, prevSent, failedPrev, trueAtStart >>
auxVars == << email_template, trigger, email_message, section_key,
             key_prefixed >>

EmptyMap == [k \in {} |-> 0]

\* d[k] = v on a dict
Put(d, k, v) == [x \in (DOMAIN d) \cup {k} |-> IF x = k THEN v ELSE d[x]]

\* ------------------------------------------------------ pure functions
\* WatcherPath.age_seconds, with st_mtime read at construction
age_seconds(st_mtime, t) == t - st_mtime

\* last_alert_time looking up (path, watch_name), the key's fields swapped
last_alert_time_swapped(a, watch_name, path) ==
    LET key == <<path, watch_name>>
    IN  IF key \in DOMAIN a THEN a[key] ELSE 0

\* WatcherArchive.last_alert_time
last_alert_time(a, watch_name, path) ==
    LET key == <<watch_name, path>>
    IN  IF key \in DOMAIN a THEN a[key] ELSE 0

\* WatcherArchive.last_alert_age_seconds
last_alert_age_seconds(a, watch_name, path, t) ==
    t - last_alert_time(a, watch_name, path)

\* eval(watch['func_expr'], {}, context): "true", "false" or "raise"
EvalExpr(e, st_mtime, a, watch_name, path, t) ==
    CASE e.kind = "raise" -> "raise"
      [] e.kind = "age" ->
            IF age_seconds(st_mtime, t) >= e.limit THEN "true" ELSE "false"
      [] e.kind = "guard" ->
            IF /\ age_seconds(st_mtime, t) >= e.limit
               /\ last_alert_age_seconds(a, watch_name, path, t) >= e.D
            THEN "true" ELSE "false"
      [] e.kind = "clear" ->
            IF age_seconds(st_mtime, t) >= e.limit THEN "true" ELSE "false"
      [] e.kind = "touch" -> "true"

\* what evaluating the expression does to the dict behind the archive
\* binding and to the file system: eval is given globals {}, to which it
\* adds __builtins__, and the context holds the objects themselves
EvalEffect(e, a, path, exists, mt, t) ==
    CASE e.kind = "clear" ->
            [archive |-> EmptyMap, present |-> exists, mtime |-> mt]
      [] e.kind = "touch" ->
            [archive |-> a, present |-> exists \cup {path},
             mtime |-> [mt EXCEPT ![path] = t]]
      [] OTHER -> [archive |-> a, present |-> exists, mtime |-> mt]

\* watches_from_config: the names of the watches dict in insertion order,
\* or the KeyError of a name listed twice.
RECURSIVE WatchesLoop(_, _, _)
WatchesLoop(alerts, i, names) ==
    IF i > Len(alerts) THEN [err |-> "none", names |-> names]
    ELSE IF alerts[i] \in SeqRange(names)
         THEN [err |-> "KeyError", names |-> names]
         ELSE WatchesLoop(alerts, i + 1, Append(names, alerts[i]))

watches_from_config(c) == WatchesLoop(c.alerts, 1, <<>>)

\* raise_for_sanity without its second loop: paths are never checked
raise_for_sanity_emails_only(emails, names, sections, exists) ==
    IF \E i \in 1..Len(names) : sections[names[i]].email_key \notin emails
    THEN "KeyError" ELSE "none"

\* raise_for_sanity: the first loop looks up every watch's email key, the
\* second checks every watch's paths; the result is the exception raised.
raise_for_sanity(emails, names, sections, exists) ==
    IF \E i \in 1..Len(names) : sections[names[i]].email_key \notin emails
    THEN "KeyError"
    ELSE LET bad == { i \in 1..Len(names) :
                        \/ sections[names[i]].paths = <<>>
                        \/ \E p \in SeqRange(sections[names[i]].paths) :
                               p \notin exists }
         IN  IF bad = {} THEN "none"
             ELSE LET i == CHOOSE j \in bad : \A k \in bad : j <= k
                  IN  IF sections[names[i]].paths = <<>>
                      THEN "ValueError" ELSE "FileNotFoundError"

\* update_last_alert keyed by the watch name alone: every path of the watch
\* gets the new time
update_last_alert_per_watch(watch_name, path, a, t) ==
    [x \in (DOMAIN a) \cup {<<watch_name, path>>} |->
        IF x[1] = watch_name THEN t ELSE a[x]]

\* update_last_alert that replaces the dict by one holding the new entry alone
update_last_alert_forget(watch_name, path, a, t) ==
    Put(EmptyMap, <<watch_name, path>>, t)

\* update_last_alert that keeps the time of an existing key (setdefault)
update_last_alert_keep_first(watch_name, path, a, t) ==
    IF <<watch_name, path>> \in DOMAIN a THEN a ELSE Put(a, <<watch_name, path>>, t)

\* update_last_alert
update_last_alert(watch_name, path, a, t) == Put(a, <<watch_name, path>>, t)

\* The bytes of a pickle, as its opcodes: EMPTY_DICT or EMPTY_LIST, one
\* SETITEM per entry of a dict, STOP.
Op(op, key, val) == [op |-> op, key |-> key, val |-> val]
NoKey == <<"", "">>

RECURSIVE DumpItems(_, _)
DumpItems(a, S) ==
    IF S = {} THEN <<>>
    ELSE LET k == CHOOSE x \in S : TRUE
         IN  <<Op("SETITEM", k, a[k])>> \o DumpItems(a, S \ {k})

\* pickle.dump of the archive object: a dict with the entries of a, or the
\* empty list
pickle_dump(t, a) ==
    IF t = "dict"
    THEN <<Op("EMPTY_DICT", NoKey, 0)>> \o DumpItems(a, DOMAIN a)
            \o <<Op("STOP", NoKey, 0)>>
    ELSE <<Op("EMPTY_LIST", NoKey, 0), Op("STOP", NoKey, 0)>>

Loaded(err, t, a) == [err |-> err, type |-> t, map |-> a]

RECURSIVE LoadItems(_, _, _)
LoadItems(b, i, a) ==
    IF i > Len(b) THEN Loaded("EOFError", "dict", EmptyMap)
    ELSE IF b[i].op = "STOP" THEN Loaded("none", "dict", a)
    ELSE IF b[i].op = "SETITEM"
         THEN LoadItems(b, i + 1, Put(a, b[i].key, b[i].val))
         ELSE Loaded("UnpicklingError", "dict", EmptyMap)

\* pickle.load: the object up to the first STOP, or the exception raised
pickle_load(b) ==
    IF Len(b) = 0 THEN Loaded("EOFError", "dict", EmptyMap)
    ELSE IF b[1].op = "EMPTY_DICT" THEN LoadItems(b, 2, EmptyMap)
    ELSE IF b[1].op = "EMPTY_LIST"
         THEN IF Len(b) >= 2 /\ b[2].op = "STOP"
              THEN Loaded("none", "list", EmptyMap)
              ELSE Loaded("EOFError", "dict", EmptyMap)
         ELSE Loaded("UnpicklingError", "dict", EmptyMap)

\* load_archive: the unpickled object, {} when there is no file or it has
\* no bytes, or the exception of pickle.load
load_archive(f) ==
    IF f.exists /\ Len(f.bytes) > 0
    THEN pickle_load(f.bytes)
    ELSE Loaded("none", "dict", EmptyMap)

\* save_archive whose last bytes never leave the buffer (the file is not
\* closed)
save_archive_unflushed(t, a) ==
    LET b == pickle_dump(t, a)
    IN  [exists |-> TRUE, bytes |-> SubSeq(b, 1, Len(b) - 1)]

\* save_archive: open(archive_path, 'wb') and pickle.dump
save_archive(t, a) == [exists |-> TRUE, bytes |-> pickle_dump(t, a)]

\* an EmailMessage: its headers in order, and its content
Message(headers, has_body, body) ==
    [headers |-> headers, has_body |-> has_body, body |-> body]
NoMessage == Message(<<>>, FALSE, <<>>)

\* ------------------------------------------------------------ the run
Names == watches_from_config(cp).names
CurWatch == Names[wi]
CurSection == cp.sections[CurWatch]
CurPath == CurSection.paths[pi]
CurKey == <<CurWatch, CurPath>>

\* every (watch, path) pair of the configuration
ConfigKeys ==
    { <<cp.alerts[i], p>> : i \in 1..Len(cp.alerts), p \in PathNames } \cap
    { k \in Keys : k[2] \in SeqRange(cp.sections[k[1]].paths) }

\* the condition of a pair, on archive mapping a, as things stand
CondTrue(k, a) ==
    /\ k[2] \in present
    /\ EvalExpr(cp.sections[k[1]].func_expr, mtime[k[2]], a, k[1], k[2], now)
         = "true"

\* the watched files are old, or the first of them was just written
MtimeInits ==
    { [p \in PathNames |-> 0],
      [p \in PathNames |-> IF p = "p1" THEN Epoch ELSE 0] }

\* the functions checked on their own are not called with these
AuxInit ==
    /\ email_template = <<>> /\ trigger = "" /\ email_message = NoMessage
    /\ section_key = <<>> /\ key_prefixed = "unset"

NoFile == [exists |-> FALSE, bytes |-> <<>>]

\* no run has started
RunInit ==
    /\ now = Epoch
    /\ present = PathNames
    /\ archive = EmptyMap /\ archive_type = "dict"
    /\ pc = "idle"
    /\ exc = "none"
    /\ wi = 0 /\ pi = 0 /\ stat = 0
    /\ loaded = FALSE /\ loaded0 = EmptyMap
    /\ file0 = NoFile
    /\ evald = {} /\ raised = {} /\ attempted = {} /\ sent = {}
    /\ sendFailed = {} /\ statFailed = {}
    /\ writes = 0 /\ saves = 0
    /\ prevSent = EmptyMap /\ failedPrev = {} /\ trueAtStart = {}

\* a fresh installation: no archive file yet
Init ==
    /\ cp \in Configs
    /\ mtime \in MtimeInits
    /\ archive_file = NoFile
    /\ everSent = {} /\ lastSent = EmptyMap
    /\ RunInit
    /\ AuxInit

\* main / run_from_args is entered: a new process, nothing done yet.  A run
\* that is over left pc at "done" (exit status 0) or "aborted" (a traceback).
StartRun ==
    /\ pc \in {"idle", "done", "aborted"}
    /\ pc' = "config"
    /\ exc' = "none"
    /\ archive' = EmptyMap /\ archive_type' = "dict"
    /\ loaded' = FALSE /\ loaded0' = EmptyMap
    /\ file0' = archive_file
    /\ evald' = {} /\ raised' = {} /\ attempted' = {} /\ sent' = {}
    /\ sendFailed' = {} /\ statFailed' = {}
    /\ writes' = 0 /\ saves' = 0
    /\ failedPrev' = sendFailed
    /\ prevSent' = lastSent
    /\ trueAtStart' = { k \in ConfigKeys : CondTrue(k, load_archive(archive_file).map) }
    /\ UNCHANGED auxVars
    /\ UNCHANGED << cp, archive_file, everSent, lastSent >>
    /\ UNCHANGED envVars
    /\ wi' = 0 /\ pi' = 0 /\ stat' = 0

\* run_from_args up to raise_for_sanity
Validate ==
    /\ pc = "config"
    /\ LET w == watches_from_config(cp)
           e == IF w.err # "none" THEN w.err
                ELSE raise_for_sanity(DefinedEmails, w.names, cp.sections, present)
       IN  /\ exc' = e
           /\ pc' = IF e = "none" THEN "load" ELSE "aborted"
    /\ UNCHANGED auxVars
    /\ UNCHANGED << cp, archive_type, archive_file, archive >>
    /\ UNCHANGED envVars /\ UNCHANGED posVars
    /\ UNCHANGED runHist /\ UNCHANGED crossHist

\* the for loops of check_and_alert: from the pair after (w, p), the first
\* watch that still has a path; past the last watch the loops are over
RECURSIVE NextPair(_, _)
NextPair(w, p) ==
    IF w > Len(Names) THEN [pc |-> "save", wi |-> 0, pi |-> 0]
    ELSE IF p < Len(cp.sections[Names[w]].paths)
         THEN [pc |-> "stat", wi |-> w, pi |-> p + 1]
         ELSE NextPair(w + 1, 0)

Goto(n) == pc' = n.pc /\ wi' = n.wi /\ pi' = n.pi /\ stat' = 0

\* load_archive, then check_and_alert is entered
LoadArchive ==
    /\ pc = "load"
    /\ LET r == load_archive(archive_file)
       IN  IF r.err = "none"
           THEN /\ archive' = r.map /\ archive_type' = r.type
                /\ loaded' = TRUE /\ loaded0' = r.map
                /\ Goto(NextPair(1, 0))
                /\ UNCHANGED exc
           ELSE /\ exc' = r.err /\ pc' = "aborted"
                /\ UNCHANGED << archive, archive_type, loaded, loaded0 >>
                /\ UNCHANGED posVars
    /\ UNCHANGED auxVars
    /\ UNCHANGED << cp, archive_file >>
    /\ UNCHANGED envVars /\ UNCHANGED crossHist
    /\ UNCHANGED << file0, evald, raised, attempted, sent, sendFailed,
                    statFailed, writes, saves >>

\* watcher_path = WatcherPath(path): os.stat outside any try block
StatPath ==
    /\ pc = "stat"
    /\ IF CurPath \in present
       THEN /\ stat' = mtime[CurPath]
            /\ pc' = "eval"
            /\ UNCHANGED << wi, pi, exc, statFailed >>
       ELSE /\ exc' = "OSError"
            /\ pc' = "aborted"
            /\ statFailed' = statFailed \cup {CurKey}
            /\ UNCHANGED << wi, pi, stat >>
    /\ UNCHANGED auxVars
    /\ UNCHANGED << cp, archive_type, archive_file, archive >>
    /\ UNCHANGED envVars /\ UNCHANGED crossHist
    /\ UNCHANGED << loaded, loaded0, file0, evald, raised, attempted, sent,
                    sendFailed, writes, saves >>

\* the evaluation without its try / except: an exception ends the run
EvalCondNoTry ==
    /\ pc = "eval"
    /\ LET r == EvalExpr(CurSection.func_expr, stat, archive,
                         CurWatch, CurPath, now)
       IN  /\ evald' = evald \cup {CurKey}
           /\ raised' = IF r = "raise" THEN raised \cup {CurKey} ELSE raised
           /\ CASE r = "true" ->
                     pc' = "send" /\ UNCHANGED << wi, pi, stat, exc >>
                [] r = "false" ->
                     Goto(NextPair(wi, pi)) /\ UNCHANGED exc
                [] r = "raise" ->
                     pc' = "aborted" /\ exc' = "AttributeError"
                     /\ UNCHANGED << wi, pi, stat >>
    /\ LET eff == EvalEffect(CurSection.func_expr, archive, CurPath,
                              present, mtime, now)
       IN  /\ archive' = eff.archive
           /\ present' = eff.present
           /\ mtime' = eff.mtime
    /\ UNCHANGED auxVars
    /\ UNCHANGED << cp, archive_type, archive_file >>
    /\ UNCHANGED now /\ UNCHANGED crossHist
    /\ UNCHANGED << loaded, loaded0, file0, attempted, sent, sendFailed,
                    statFailed, writes, saves >>

\* need_alert = eval(...) inside try / except: continue
EvalCond ==
    /\ pc = "eval"
    /\ LET r == EvalExpr(CurSection.func_expr, stat, archive,
                         CurWatch, CurPath, now)
       IN  /\ evald' = evald \cup {CurKey}
           /\ raised' = IF r = "raise" THEN raised \cup {CurKey} ELSE raised
           /\ IF r = "true"
              THEN pc' = "send" /\ UNCHANGED << wi, pi, stat >>
              ELSE Goto(NextPair(wi, pi))
    /\ LET eff == EvalEffect(CurSection.func_expr, archive, CurPath,
                              present, mtime, now)
       IN  /\ archive' = eff.archive
           /\ present' = eff.present
           /\ mtime' = eff.mtime
    /\ UNCHANGED auxVars
    /\ UNCHANGED << cp, archive_type, archive_file, exc >>
    /\ UNCHANGED now /\ UNCHANGED crossHist
    /\ UNCHANGED << loaded, loaded0, file0, attempted, sent, sendFailed,
                    statFailed, writes, saves >>

\* the send with update_last_alert moved in front of it: the time is
\* recorded whether or not send_message returns
SendEmailRecordsFirst ==
    /\ pc = "send"
    /\ attempted' = attempted \cup {CurKey}
    /\ archive' = update_last_alert(CurWatch, CurPath, archive, now)
    /\ \/ /\ sent' = sent \cup {CurKey}
          /\ everSent' = everSent \cup {CurKey}
          /\ lastSent' = Put(lastSent, CurKey, now)
          /\ pc' = "record"
          /\ UNCHANGED << exc, sendFailed >>
       \/ /\ sendFailed' = sendFailed \cup {CurKey}
          /\ exc' = "SMTPException"
          /\ pc' = "aborted"
          /\ UNCHANGED << sent, everSent, lastSent >>
    /\ UNCHANGED auxVars
    /\ UNCHANGED << cp, archive_type, archive_file >>
    /\ UNCHANGED envVars /\ UNCHANGED posVars
    /\ UNCHANGED << prevSent, failedPrev, trueAtStart >>
    /\ UNCHANGED << loaded, loaded0, file0, evald, raised, statFailed,
                    writes, saves >>

\* make_email, then smtplib.SMTP(...).send_message: returns or raises
SendEmail ==
    /\ pc = "send"
    /\ attempted' = attempted \cup {CurKey}
    /\ \/ /\ sent' = sent \cup {CurKey}
          /\ everSent' = everSent \cup {CurKey}
          /\ lastSent' = Put(lastSent, CurKey, now)
          /\ pc' = "record"
          /\ UNCHANGED << exc, sendFailed >>
       \/ /\ sendFailed' = sendFailed \cup {CurKey}
          /\ exc' = "SMTPException"
          /\ pc' = "aborted"
          /\ UNCHANGED << sent, everSent, lastSent >>
    /\ UNCHANGED auxVars
    /\ UNCHANGED << cp, archive_type, archive_file, archive >>
    /\ UNCHANGED envVars /\ UNCHANGED posVars
    /\ UNCHANGED << prevSent, failedPrev, trueAtStart >>
    /\ UNCHANGED << loaded, loaded0, file0, evald, raised, statFailed,
                    writes, saves >>

\* update_last_alert(watch_name, path, archive), end of the loop body
RecordAlert ==
    /\ pc = "record"
    /\ IF archive_type = "dict"
       THEN /\ archive' = update_last_alert(CurWatch, CurPath, archive, now)
            /\ writes' = writes + 1
            /\ Goto(NextPair(wi, pi))
            /\ UNCHANGED exc
       ELSE \* archive[(watch_name, path)] = ... on a list
            /\ exc' = "TypeError" /\ pc' = "aborted"
            /\ UNCHANGED << archive, writes >> /\ UNCHANGED posVars
    /\ UNCHANGED auxVars
    /\ UNCHANGED << cp, archive_type, archive_file >>
    /\ UNCHANGED envVars /\ UNCHANGED crossHist
    /\ UNCHANGED << loaded, loaded0, file0, evald, raised, attempted, sent,
                    sendFailed, statFailed, saves >>

\* save_archive(archive_path, archive), run_from_args returns
SaveArchive ==
    /\ pc = "save"
    /\ archive_file' = save_archive(archive_type, archive)
    /\ saves' = saves + 1
    /\ pc' = "done"
    /\ UNCHANGED auxVars
    /\ UNCHANGED << cp, archive_type, archive, exc >>
    /\ UNCHANGED envVars /\ UNCHANGED posVars /\ UNCHANGED crossHist
    /\ UNCHANGED << loaded, loaded0, file0, evald, raised, attempted, sent,
                    sendFailed, statFailed, writes >>

\* ----------------------------------------------------- the environment
\* The clock is read by EvalCond and RecordAlert and when a run starts, the
\* file system by Validate and StatPath: the environment moves right before
\* those reads, which is as much as the run can tell; between runs only the
\* clock moves.
Tick ==
    /\ pc \in {"idle", "done", "aborted", "eval", "record"}
    /\ now < MaxTime
    /\ now' = now + 1
    /\ UNCHANGED auxVars
    /\ UNCHANGED << cp, archive_type, present, mtime, archive_file, archive, pc, exc >>
    /\ UNCHANGED posVars /\ UNCHANGED runHist /\ UNCHANGED crossHist

\* a watched file is removed
RemoveFile ==
    /\ pc \in {"config", "stat"}
    /\ \E p \in present : present' = present \ {p}
    /\ UNCHANGED auxVars
    /\ UNCHANGED << cp, archive_type, now, mtime, archive_file, archive, pc, exc >>
    /\ UNCHANGED posVars /\ UNCHANGED runHist /\ UNCHANGED crossHist

Next ==
    \/ StartRun
    \/ Validate
    \/ LoadArchive
    \/ StatPath
    \/ EvalCond
    \/ SendEmail
    \/ RecordAlert
    \/ SaveArchive
    \/ Tick
    \/ RemoveFile

Spec == Init /\ [][Next]_vars

\* --------------------------------------- the archive file, byte by byte
\* What a run may find at archive_path: no file, a file without bytes, a
\* pickled dict, a pickle cut short, a pickled list, bytes that are no pickle.
MapInits ==
    { EmptyMap,
      [k \in {<<"w1", "p1">>} |-> 1],
      [k \in {<<"w1", "p1">>, <<"w1", "p2">>} |-> 2] }

FileInits ==
    { NoFile, [exists |-> TRUE, bytes |-> <<>>] }
    \cup { save_archive("dict", m) : m \in MapInits }
    \cup { save_archive_unflushed("dict", m) : m \in MapInits }
    \cup { save_archive("list", EmptyMap),
           [exists |-> TRUE, bytes |-> <<Op("GARBAGE", NoKey, 0)>>] }

ConfigsDisk ==
    { c \in Configs :
        /\ c.alerts = <<"w1">>
        /\ c.sections["w1"].email_key \in DefinedEmails
        /\ c.sections["w1"].paths # <<>> }

InitDisk ==
    /\ cp \in ConfigsDisk
    /\ mtime = [p \in PathNames |-> 0]
    /\ archive_file \in FileInits
    /\ everSent = DOMAIN load_archive(archive_file).map
    /\ lastSent = load_archive(archive_file).map
    /\ RunInit
    /\ AuxInit

\* save_archive, first half: open(archive_path, 'wb') truncates the file
SaveOpen ==
    /\ pc = "save"
    /\ archive_file' = [exists |-> TRUE, bytes |-> <<>>]
    /\ pc' = "dump"
    /\ UNCHANGED auxVars
    /\ UNCHANGED << cp, archive_type, archive, exc >>
    /\ UNCHANGED envVars /\ UNCHANGED posVars /\ UNCHANGED crossHist
    /\ UNCHANGED runHist

\* save_archive, second half: pickle.dump and the close of the file
SaveDump ==
    /\ pc = "dump"
    /\ archive_file' = save_archive(archive_type, archive)
    /\ saves' = saves + 1
    /\ pc' = "done"
    /\ UNCHANGED auxVars
    /\ UNCHANGED << cp, archive_type, archive, exc >>
    /\ UNCHANGED envVars /\ UNCHANGED posVars /\ UNCHANGED crossHist
    /\ UNCHANGED << loaded, loaded0, file0, evald, raised, attempted, sent,
                    sendFailed, statFailed, writes >>

\* the process is killed between open and close: any proper prefix of the
\* pickle has reached the file
CrashInSave ==
    /\ pc = "dump"
    /\ LET b == pickle_dump(archive_type, archive)
       IN  \E n \in 0..(Len(b) - 1) :
              archive_file' = [exists |-> TRUE, bytes |-> SubSeq(b, 1, n)]
    /\ pc' = "aborted"
    /\ exc' = "killed"
    /\ UNCHANGED auxVars
    /\ UNCHANGED << cp, archive_type, archive >>
    /\ UNCHANGED envVars /\ UNCHANGED posVars /\ UNCHANGED crossHist
    /\ UNCHANGED runHist

NextDisk ==
    \/ Next
    \/ SaveOpen
    \/ SaveDump
    \/ CrashInSave

SpecDisk == InitDisk /\ [][NextDisk]_vars

\* --------------------------------------------------- rendering an email
\* A format string is a sequence of pieces: literal text, or a replacement
\* field {text}.  A rendered string is the sequence of its pieces' texts.
Lit(text) == [ph |-> FALSE, text |-> text]
Field(text) == [ph |-> TRUE, text |-> text]

TriggerPaths == {"/tmp/x", "/tmp/y"}
FuncExprText == "path.age_days > 1"

\* str.lower on the field names used here
Lower(key) ==
    CASE key = "Subject" -> "subject"
      [] key = "To" -> "to"
      [] key \in {"Body", "BODY"} -> "body"
      [] OTHER -> key

keys_for_set_contents == {"body"}

\* format(obj, '') of an object whose class defines neither __format__ nor
\* __str__ nor __repr__: object.__repr__ (the address is left out)
object_repr == "<watcher.WatcherPath object>"

\* the dict built in check_and_alert for make_email
Substitutions(path, func_expr) ==
    [path |-> [path |-> path], func_expr |-> func_expr]

\* one replacement field of str.format(**substitutions)
FormatField(name, substitutions) ==
    CASE name = "path" -> object_repr
      [] name = "path.path" -> substitutions.path.path
      [] name = "func_expr" -> substitutions.func_expr

\* template.format(**substitutions)
RECURSIVE format(_, _)
format(template, substitutions) ==
    IF template = <<>> THEN <<>>
    ELSE LET piece == Head(template)
         IN  << IF piece.ph THEN FormatField(piece.text, substitutions)
                ELSE piece.text >>
             \o format(Tail(template), substitutions)

Header(name, value) == [name |-> name, value |-> value]

\* EmailMessage.set_content(string): the Content-* headers are replaced,
\* MIME-Version is added once, the payload is the text
set_content(msg, string) ==
    LET kept == SelectSeq(msg.headers,
                    LAMBDA h : h.name \notin {"Content-Type",
                                              "Content-Transfer-Encoding"})
        mime == IF \E i \in 1..Len(kept) : kept[i].name = "MIME-Version"
                THEN <<>> ELSE << Header("MIME-Version", <<"1.0">>) >>
    IN  Message(kept \o << Header("Content-Type", <<"text/plain">>),
                           Header("Content-Transfer-Encoding", <<"7bit">>) >>
                     \o mime,
                TRUE, string)

\* email_message[key] = string
set_header(msg, key, string) ==
    Message(Append(msg.headers, Header(key, string)), msg.has_body, msg.body)

RECURSIVE MakeEmailLoop(_, _, _, _)
MakeEmailLoop(tmpl, i, substitutions, msg) ==
    IF i > Len(tmpl) THEN msg
    ELSE LET key == tmpl[i].key
             string == format(tmpl[i].value, substitutions)
         IN  MakeEmailLoop(tmpl, i + 1, substitutions,
                 IF Lower(key) \in keys_for_set_contents
                 THEN set_content(msg, string)
                 ELSE set_header(msg, key, string))

\* make_email
make_email(tmpl, substitutions) ==
    MakeEmailLoop(tmpl, 1, substitutions, NoMessage)

MaxFields == 3

TemplateKeys == {"Subject", "To", "body", "Body", "BODY"}
TemplateValues ==
    { << Lit("Alert for "), Field("path") >>,
      << Field("path"), Lit(" is old") >>,
      << Lit("Alert for "), Field("path.path") >>,
      << Field("path.path"), Lit(" is old") >>,
      << Lit("ops@example.org") >>,
      << Lit("func: "), Field("func_expr") >> }
TemplateFields == [key : TemplateKeys, value : TemplateValues]

\* the sections email.<key> of a configuration: one to three options, no
\* two with the same name up to letter case
Templates ==
    { t \in UNION { [1..n -> TemplateFields] : n \in 1..MaxFields } :
        \A i, j \in DOMAIN t : i # j => Lower(t[i].key) # Lower(t[j].key) }

InitEmail ==
    /\ cp \in ConfigsDisk
    /\ mtime = [p \in PathNames |-> 0]
    /\ archive_file = NoFile
    /\ everSent = {} /\ lastSent = EmptyMap
    /\ RunInit
    /\ email_template \in Templates
    /\ trigger \in TriggerPaths
    /\ email_message = NoMessage
    /\ section_key = <<>> /\ key_prefixed = "unset"

\* check_and_alert, lines 226-232: the email of one alert
MakeEmail ==
    /\ email_message = NoMessage
    /\ email_message' =
           make_email(email_template, Substitutions(trigger, FuncExprText))
    /\ UNCHANGED << email_template, trigger, section_key, key_prefixed >>
    /\ UNCHANGED << cp, archive_type, archive_file, archive, pc, exc >>
    /\ UNCHANGED envVars /\ UNCHANGED posVars
    /\ UNCHANGED runHist /\ UNCHANGED crossHist

NextEmail == MakeEmail

SpecEmail == InitEmail /\ [][NextEmail]_vars

\* ------------------------------------------- the path keys of a section
\* Option names as sequences of characters.
Digits == {"0", "1", "2", "3", "4", "5", "6", "7", "8", "9"}

\* str.startswith
startswith(key, prefix) ==
    /\ Len(key) >= Len(prefix)
    /\ \A i \in 1..Len(prefix) : key[i] = prefix[i]

\* key[n:]
SliceFrom(key, n) ==
    IF n >= Len(key) THEN <<>> ELSE [i \in 1..(Len(key) - n) |-> key[n + i]]

\* str.isdigit: at least one character and all of them digits
isdigit(str) == str # <<>> /\ \A i \in 1..Len(str) : str[i] \in Digits

\* is_prefixed: "and" binds tighter than "or"
is_prefixed(key, prefix) ==
    LET n == Len(prefix)
    IN  \/ (startswith(key, prefix) /\ SliceFrom(key, n) = <<>>)
        \/ isdigit(SliceFrom(key, n))

PathPrefix == << "p", "a", "t", "h" >>

MaxSuffix == 2

KeyHeads ==
    { PathPrefix, << "f", "u", "n", "c" >>, << "p", "a", "t" >>,
      << "e", "m", "a", "i", "l" >>, <<>> }
KeySuffixes ==
    UNION { [1..n -> {"1", "2", "x"}] : n \in 0..MaxSuffix }

\* option names a section alert.<name> may hold
SectionKeys == { h \o x : h \in KeyHeads, x \in KeySuffixes }

InitPrefix ==
    /\ cp \in ConfigsDisk
    /\ mtime = [p \in PathNames |-> 0]
    /\ archive_file = NoFile
    /\ everSent = {} /\ lastSent = EmptyMap
    /\ RunInit
    /\ email_template = <<>> /\ trigger = "" /\ email_message = NoMessage
    /\ section_key \in SectionKeys
    /\ key_prefixed = "unset"

\* watches_from_config, line 150: the test of one option name
TestKey ==
    /\ key_prefixed = "unset"
    /\ key_prefixed' =
           IF is_prefixed(section_key, PathPrefix) THEN "True" ELSE "False"
    /\ UNCHANGED << email_template, trigger, email_message, section_key >>
    /\ UNCHANGED << cp, archive_type, archive_file, archive, pc, exc >>
    /\ UNCHANGED envVars /\ UNCHANGED posVars
    /\ UNCHANGED runHist /\ UNCHANGED crossHist

NextPrefix == TestKey

SpecPrefix == InitPrefix /\ [][NextPrefix]_vars

\* ------------------------------------- runs with arbitrary expressions
\* valid configurations of two watches, the first with any expression
ConfigsEval ==
    { c \in [alerts : {<<"w1", "w2">>},
             sections : [WatchNames ->
                            [func_expr : ExprsEval,
                             paths : PathLists \ {<<>>},
                             email_key : DefinedEmails]]] :
        c.sections["w2"].func_expr.kind = "guard" }

InitEval ==
    /\ cp \in ConfigsEval
    /\ mtime = [p \in PathNames |-> 0]
    /\ archive_file = NoFile
    /\ everSent = {} /\ lastSent = EmptyMap
    /\ RunInit
    /\ AuxInit

SpecEval == InitEval /\ [][Next]_vars

\* ============================================================= claims
\* whether dicts a and b disagree on key k (presence or value)
Differs(a, b, k) ==
    \/ (k \in DOMAIN a) # (k \in DOMAIN b)
    \/ k \in DOMAIN a /\ k \in DOMAIN b /\ a[k] # b[k]

\* the mapping a run would load from file f
Persisted(f) == load_archive(f).map

RunOver == pc \in {"done", "aborted"}
BetweenRuns == pc \in {"idle", "done", "aborted"}

\* the pairs of the configuration as positions <<watch index, path index>>,
\* watches in configuration order, paths in declared order
RECURSIVE PairsFrom(_)
PairsFrom(w) ==
    IF w > Len(Names) THEN <<>>
    ELSE [i \in 1..Len(cp.sections[Names[w]].paths) |-> <<w, i>>]
         \o PairsFrom(w + 1)
AllPairs == PairsFrom(1)
KeyAt(pos) == <<Names[pos[1]], cp.sections[Names[pos[1]]].paths[pos[2]]>>
CurIndex == CHOOSE i \in 1..Len(AllPairs) : AllPairs[i] = <<wi, pi>>

\* C1: a pair whose send failed keeps its archive entry (in memory and in the
\* file), and the following run, started from that archive state with the
\* pair's condition still true, attempts the send for the pair again.
C1_RetryAfterSendFailure ==
    /\ \A k \in sendFailed :
          /\ ~Differs(archive, loaded0, k)
          /\ ~Differs(Persisted(archive_file), Persisted(file0), k)
    /\ (RunOver /\ loaded) =>           \* a following run that passed validation
          \A k \in failedPrev \cap trueAtStart :
              CondTrue(k, Persisted(file0)) => k \in attempted

\* C2: an in-memory archive entry differs from the loaded value only after
\* a send for that pair has succeeded in this run.
C2_WriteOnlyAfterSend ==
    loaded => \A k \in Keys : Differs(archive, loaded0, k) => k \in sent

C2_Witness ==
    /\ loaded
    /\ \E k \in sent : Differs(archive, loaded0, k)
    /\ \E k \in sent : k \in DOMAIN loaded0

\* C3: for a watch guarded by archive.last_alert_age_seconds >= D, a run sends
\* for a pair only D or more after the previous successful send for that pair.
C3_RepeatSuppressed ==
    \A k \in sent :
        (cp.sections[k[1]].func_expr.kind = "guard" /\ k \in DOMAIN prevSent)
            => lastSent[k] - prevSent[k] >= cp.sections[k[1]].func_expr.D

\* C4: when os.stat fails for one pair, every other pair is still evaluated
\* and the run still saves the archive.
C4_StatFailureIsolated ==
    (RunOver /\ statFailed # {}) =>
        /\ ConfigKeys \ statFailed \subseteq evald
        /\ saves = 1

\* C5: when a send fails, the remaining pairs are still processed and the run
\* completes: archive saved, exit status 0.
C5_SendFailureIsolated ==
    (RunOver /\ sendFailed # {}) =>
        /\ pc = "done"
        /\ ConfigKeys \subseteq evald \cup statFailed
        /\ saves = 1

\* C6: when the condition of a pair raises, no email is sent for the pair, the
\* archive is unchanged, and the loops go on with the next pair.
C6_Step ==
    (pc = "eval" /\ pc' # "eval" /\
     EvalExpr(CurSection.func_expr, stat, archive, CurWatch, CurPath, now)
        = "raise")
    => /\ archive' = archive
       /\ attempted' = attempted /\ sent' = sent
       /\ exc' = "none"
       /\ CurKey \in raised'
       /\ IF CurIndex < Len(AllPairs)
          THEN pc' = "stat" /\ <<wi', pi'>> = AllPairs[CurIndex + 1]
          ELSE pc' = "save"

C6_ExpressionErrorIsolated ==
    /\ [](raised \cap attempted = {})
    /\ [](loaded => \A k \in raised : ~Differs(archive, loaded0, k))
    /\ [][C6_Step]_vars

C6_Witness ==
    /\ pc = "done"
    /\ Len(Names) = 2
    /\ \E k \in raised : k[1] = Names[1]
    /\ \E k \in sent : k[1] = Names[2] /\ k \in DOMAIN Persisted(archive_file)

\* C7: a run that loaded the archive saves it exactly once, after the last
\* pair was processed.
C7_SavedExactlyOnce ==
    /\ saves <= 1
    /\ saves = 1 => ConfigKeys \subseteq evald
    /\ (RunOver /\ loaded) => saves = 1

\* C8: between runs the keys of the persisted archive are exactly the pairs
\* for which a send has succeeded.
C8_KeyIffSent ==
    BetweenRuns => DOMAIN Persisted(archive_file) = everSent

\* C9: only the record of a successful dispatch changes the in-memory
\* archive, it writes the key of that pair alone, and there is one write per
\* successful send.
C9_Step ==
    (archive' # archive) =>
        \/ pc = "load"              \* the dict is created by load_archive
        \/ pc' = "config"           \* a new process
        \/ /\ pc = "record"
           /\ CurKey \in sent
           /\ writes' = writes + 1
           /\ DOMAIN archive' = DOMAIN archive \cup {CurKey}
           /\ archive'[CurKey] = now
           /\ \A k \in DOMAIN archive \ {CurKey} : archive'[k] = archive[k]

C9_OnlyDispatchWrites ==
    /\ [](writes = Cardinality(sent) - (IF pc = "record" THEN 1 ELSE 0))
    /\ [][C9_Step]_vars

C9_Witness ==
    /\ pc = "save"
    /\ writes = 1
    /\ \E k \in sent : archive[k] = now /\ (DOMAIN loaded0) \ {k} # {}
    /\ evald \ attempted # {}

\* C10: an invalid configuration aborts the run before the archive is loaded,
\* a condition evaluated, an email sent or the archive file written.
ConfigErrors == {"KeyError", "ValueError", "FileNotFoundError"}

InvalidConfig ==
    \/ \E i, j \in 1..Len(cp.alerts) : i # j /\ cp.alerts[i] = cp.alerts[j]
    \/ \E w \in SeqRange(cp.alerts) :
          \/ cp.sections[w].email_key \notin DefinedEmails
          \/ cp.sections[w].paths = <<>>
          \/ \E p \in SeqRange(cp.sections[w].paths) : p \notin present

NothingDone ==
    /\ ~loaded /\ archive = EmptyMap
    /\ evald = {} /\ attempted = {} /\ sent = {}
    /\ saves = 0 /\ archive_file = file0

C10_Step ==
    (pc = "config" /\ pc' # "config" /\ InvalidConfig)
        => pc' = "aborted" /\ exc' \in ConfigErrors

C10_ValidationFailFast ==
    /\ []((pc = "config" \/ exc \in ConfigErrors) => NothingDone)
    /\ [](exc \in ConfigErrors => pc = "aborted")
    /\ [][C10_Step]_vars

C10_Witness ==
    /\ pc = "aborted"
    /\ exc = "FileNotFoundError"
    /\ archive_file.exists /\ Persisted(archive_file) # EmptyMap

\* C11: a missing or empty archive file loads as the empty mapping, and
\* bytes that do not unpickle to a mapping abort the run before any pair is
\* evaluated, any email sent or the file written.
Undeserializable(f) ==
    /\ f.exists /\ Len(f.bytes) > 0
    /\ pickle_load(f.bytes).err # "none" \/ pickle_load(f.bytes).type # "dict"

C11_CorruptArchiveAborts ==
    /\ (loaded /\ (~file0.exists \/ file0.bytes = <<>>))
          => loaded0 = EmptyMap /\ archive_type = "dict"
    /\ (pc # "idle" /\ Undeserializable(file0))
          => /\ ~loaded
             /\ evald = {} /\ attempted = {}
             /\ archive_file = file0

\* C12: when the process stops inside save_archive, the file holds the
\* complete old mapping or the complete new one.
C12_SaveAtomic ==
    (pc = "aborted" /\ exc = "killed" /\ ~Undeserializable(file0))
        => /\ load_archive(archive_file).err = "none"
           /\ \/ load_archive(archive_file).map = Persisted(file0)
              \/ load_archive(archive_file).map = archive

\* C13: what save_archive wrote loads back as the same mapping, and a run
\* without a dispatch leaves a file that loads as the mapping the run loaded.
C13_RoundTrip ==
    /\ pc = "done" => load_archive(archive_file) = Loaded("none", "dict", archive)
    /\ (RunOver /\ loaded /\ sent = {})
          => /\ load_archive(archive_file).err = "none"
             /\ load_archive(archive_file).map = loaded0

C13_Witness ==
    /\ pc = "done"
    /\ sent = {}
    /\ Cardinality(DOMAIN loaded0) >= 2
    /\ \E k \in DOMAIN loaded0 : loaded0[k] > Epoch

\* C14: last_alert_time of the archive a run works on is the stored timestamp
\* for every (watch name, path) key that is present and 0 for every key that
\* is absent.
C14_LastAlertTime ==
    \A w \in WatchNames : \A p \in PathNames :
        /\ <<w, p>> \in DOMAIN archive => last_alert_time(archive, w, p) = archive[<<w, p>>]
        /\ <<w, p>> \notin DOMAIN archive => last_alert_time(archive, w, p) = 0

C14_Witness ==
    /\ pc = "eval"
    /\ \E k \in DOMAIN archive : archive[k] > Epoch
    /\ CurKey \notin DOMAIN archive

\* C15: the step that records an alert for (w, p) at time t makes
\* last_alert_time(w, p) = t, whether or not the key had a value, and leaves
\* last_alert_time of every other (watch, path) as it was.
C15_Step ==
    (pc = "record" /\ writes' = writes + 1) =>
        /\ last_alert_time(archive', CurWatch, CurPath) = now
        /\ \A w \in WatchNames : \A p \in PathNames :
               <<w, p>> # CurKey =>
                   last_alert_time(archive', w, p) = last_alert_time(archive, w, p)

C15_RecordThenRead == [][C15_Step]_vars

\* an upsert over an older value has happened, next to entries of the same
\* watch with another path and of another watch with the same path
C15_Witness ==
    \E k \in sent :
        /\ k \in DOMAIN loaded0 /\ k \in DOMAIN archive
        /\ archive[k] > loaded0[k]
        /\ \E k2 \in DOMAIN archive : k2[1] = k[1] /\ k2[2] # k[2] /\ archive[k2] # archive[k]
        /\ \E k3 \in DOMAIN archive : k3[1] # k[1] /\ k3[2] = k[2] /\ archive[k3] # archive[k]

\* C18: in a run the pairs are processed one after the other in configuration
\* order, the pairs before the current one are done and the pairs after it
\* are untouched, and when the run is over every pair has been processed.
C18_EveryPairInOrder ==
    /\ (loaded /\ pc \in {"stat", "eval", "send", "record"}) =>
          /\ \A i \in 1..(CurIndex - 1) :
                 KeyAt(AllPairs[i]) \in evald \cup statFailed
          /\ \A i \in (CurIndex + 1)..Len(AllPairs) :
                 KeyAt(AllPairs[i]) \notin evald \cup statFailed \cup attempted
    /\ (RunOver /\ loaded) =>
          \A i \in 1..Len(AllPairs) : KeyAt(AllPairs[i]) \in evald \cup statFailed

\* the mapping the bytes of the archive file hold
Stored(f) == IF f.bytes = <<>> THEN EmptyMap ELSE pickle_load(f.bytes).map

\* C20: no step of a sequence of runs removes a key from the mapping stored
\* in the archive file or lowers the timestamp stored for a key.
C20_Step ==
    (archive_file' # archive_file) =>
        \A k \in DOMAIN Stored(archive_file) :
            /\ k \in DOMAIN Stored(archive_file')
            /\ Stored(archive_file')[k] >= Stored(archive_file)[k]

C20_PersistedMonotone == [][C20_Step]_vars

\* a run has saved a later timestamp over a stored one and kept the entry
\* of a pair it sent nothing for
C20_Witness ==
    /\ pc = "done"
    /\ \E k \in DOMAIN Stored(file0) : Stored(archive_file)[k] > Stored(file0)[k]
    /\ \E k \in DOMAIN Stored(file0) :
           k \notin sent /\ Stored(archive_file)[k] = Stored(file0)[k]

\* the fields of the template that are not the body, in declared order
TemplateHeaders(t) == SelectSeq(t, LAMBDA f : Lower(f.key) # "body")

\* the headers of the message that make_email set from template fields
FieldHeaders(msg, t) ==
    SelectSeq(msg.headers, LAMBDA h : \E i \in DOMAIN t : t[i].key = h.name)

ExampleTemplate ==
    << [key |-> "Subject", value |-> << Lit("Alert for "), Field("path") >>],
       [key |-> "body", value |-> << Field("path"), Lit(" is old") >>] >>

\* C16: in the rendered message the field named body (any letter case) is
\* the body and no header, the other fields are headers of the same name in
\* declared order, values have their placeholders substituted; the template
\* {Subject: "Alert for {path}", body: "{path} is old"} for /tmp/x gives
\* subject "Alert for /tmp/x" and body "/tmp/x is old".
C16_TemplateRendering ==
    email_message # NoMessage =>
        /\ email_message.has_body
               <=> \E i \in DOMAIN email_template :
                       Lower(email_template[i].key) = "body"
        /\ \A i \in DOMAIN email_template :
               Lower(email_template[i].key) = "body" =>
                   email_message.body
                       = format(email_template[i].value,
                                Substitutions(trigger, FuncExprText))
        /\ \A i \in DOMAIN email_message.headers :
               Lower(email_message.headers[i].name) # "body"
        /\ FieldHeaders(email_message, email_template)
               = [i \in DOMAIN TemplateHeaders(email_template) |->
                     Header(TemplateHeaders(email_template)[i].key,
                            format(TemplateHeaders(email_template)[i].value,
                                   Substitutions(trigger, FuncExprText)))]
        /\ (email_template = ExampleTemplate /\ trigger = "/tmp/x") =>
               /\ FieldHeaders(email_message, email_template)
                      = << Header("Subject", <<"Alert for ", "/tmp/x">>) >>
               /\ email_message.body = <<"/tmp/x", " is old">>

\* C19: is_prefixed(key, "path") is true exactly for "path" and for "path"
\* followed by one or more decimal digits, and false for every key that does
\* not start with "path".
C19_IsPrefixedExact ==
    key_prefixed # "unset" =>
        /\ key_prefixed = "True" <=>
               /\ startswith(section_key, PathPrefix)
               /\ \A i \in (Len(PathPrefix) + 1)..Len(section_key) :
                      section_key[i] \in Digits
        /\ ~startswith(section_key, PathPrefix) => key_prefixed = "False"

\* C17: the step that evaluates a condition expression changes neither the
\* archive mapping (of any pair) nor anything outside the process (the
\* watched files).
C17_Step ==
    (pc = "eval" /\ pc' # "eval") =>
        /\ archive' = archive
        /\ present' = present
        /\ mtime' = mtime

C17_EvalSideEffectFree == [][C17_Step]_vars


====
